---- MODULE Spec2Model ----
(***************************************************************************)
(* StylusPrimitivesDemo (src/src/lib.rs): one storage field, owner, and    *)
(* eight public methods that read facts from the host VM, write owner,     *)
(* emit an EmitMe log or hash a byte string.  Every call runs to           *)
(* completion or reverts with all of its effects discarded.                *)
(***************************************************************************)
EXTENDS Integers, Sequences, FiniteSets, TLC

(* ------------------------------ bounds -------------------------------- *)
\* externally owned accounts 1..MaxAddr that call the contract
MaxAddr == 2
\* host balances range over 0..MaxBalance
MaxBalance == 1
\* a transaction's ink price ranges over 0..MaxInkPrice
MaxInkPrice == 2
\* width in bits of the model's gas and ink integers (u64 in the program)
GasBits == 2

(* ------------------------------ values -------------------------------- *)
\* Address::ZERO, the default of an unset StorageAddress
ZeroAddress == 0
\* the account the contract is deployed at (vm.contract_address())
ContractAddress == MaxAddr + 1
Callers == 1..MaxAddr
\* the accounts whose host balance the model follows
Accounts == {ContractAddress, 1}
\* the native value attached to a call: none, or 1000 base units
Values == {0, 1000}
Balances == 0..MaxBalance
InkPrices == 0..MaxInkPrice
U64_MAX == 2 ^ GasBits - 1
GasValues == 0..U64_MAX
PreimageBytes == {0, 255}
Preimages == {<<>>} \cup {<<b>> : b \in PreimageBytes}
\* a word of the log wire format is 32 bytes
WordBytes == 32
\* an address is 20 bytes
AddressBytes == 20

VARIABLES
  owner,           \* storage: StylusPrimitivesDemo.owner
  balance,         \* host: native balance of every account
  call,            \* the most recent call: its context, outcome and logs
  inits            \* history: msg_sender of the last two completed
                   \* calls of initialize, the most recent last

vars == <<owner, balance, call, inits>>

\* the host facts of one call, as the vm() accessors report them
CallContexts ==
  [msg_sender : Callers, msg_value : Values, tx_origin : Callers,
   ink_price : InkPrices]
\* a call made directly by its origin, at ink price 1
DirectCalls ==
  {vm \in CallContexts : vm.tx_origin = vm.msg_sender /\ vm.ink_price = 1}
\* a call that may come through another contract: origin and sender differ
ChainedCalls == {vm \in CallContexts : vm.ink_price = 1}
\* a direct call at any ink price
PricedCalls == {vm \in CallContexts : vm.tx_origin = vm.msg_sender}
\* the history keeps the last two entries
Last2(s) == IF Len(s) <= 2 THEN s ELSE SubSeq(s, Len(s) - 1, Len(s))

Unit == [kind |-> "unit", val |-> <<>>]
NoArg == <<>>

(* --------------------------- byte encodings --------------------------- *)
\* the n-byte big-endian form of v (U256::to_be_bytes, Address bytes)
RECURSIVE be_bytes(_, _)
be_bytes(v, n) ==
  IF n = 0 THEN <<>> ELSE Append(be_bytes(v \div 256, n - 1), v % 256)

Zeros(n) == [i \in 1..n |-> 0]

\* EmitMe::SIGNATURE_HASH, keccak256("EmitMe(address,uint256)")
SIGNATURE_HASH ==
  <<102, 163, 144, 53, 117, 125, 181, 238, 211, 191, 186, 55, 95, 24, 36,
    200, 239, 4, 78, 63, 134, 246, 208, 209, 116, 195, 18, 82, 146, 40, 146,
    193>>

\* EmitMe::TopicList::COUNT: the selector and the one indexed field
COUNT == 2

\* the topic word of an indexed address: 12 zero bytes, then its 20 bytes
encode_topic(addr) ==
  Zeros(WordBytes - AddressBytes) \o be_bytes(addr, AddressBytes)

\* SolEvent::encode_topics_raw as sol! generates it for EmitMe: it writes
\* into the slice it is given and fails when the slice is too short
encode_topics_raw(event, out) ==
  IF Len(out) < COUNT
    THEN [ok |-> FALSE, out |-> out]
    ELSE [ok |-> TRUE,
          out |-> [i \in 1..Len(out) |->
                     IF i = 1 THEN SIGNATURE_HASH
                     ELSE IF i = 2 THEN encode_topic(event.sender)
                     ELSE out[i]]]

\* SolEvent::encode_data: the ABI encoding of the non-indexed field value
encode_data(event) == be_bytes(event.value, WordBytes)

\* the first n words of a byte string, 32 bytes each
TopicWords(input, n) ==
  [i \in 1..n |-> SubSeq(input, (i - 1) * WordBytes + 1, i * WordBytes)]

\* the host's emit_log: the first num_topics words of input are the topics,
\* the rest is the data; it refuses more than 4 topics or a short input
emit_log(input, num_topics) ==
  IF num_topics > 4 \/ Len(input) < num_topics * WordBytes
    THEN [ok |-> FALSE, log |-> [topics |-> <<>>, data |-> <<>>]]
    ELSE [ok |-> TRUE,
          log |-> [topics |-> TopicWords(input, num_topics),
                   data |-> SubSeq(input, num_topics * WordBytes + 1,
                                   Len(input))]]

\* gas_to_ink with the product wrapping at the integer width
gas_to_ink_wrapping(gas, price) == (gas * price) % (U64_MAX + 1)

\* the host's gas_to_ink: gas.saturating_mul(ink_price) on u64
gas_to_ink(gas, price) ==
  IF gas * price > U64_MAX THEN U64_MAX ELSE gas * price

\* crypto::keccak: the digest is kept symbolic, as the hash of its preimage
keccak(preimage) == [kind |-> "keccak256", val |-> preimage]

\* StorageAddress::get on owner
get(slot) == slot

(* ------------------------------- calls -------------------------------- *)
\* the record of a call that ran to completion
Returned(op, vm, arg, ret, encode, logs) ==
  [tick |-> 1 - call.tick, op |-> op, msg_sender |-> vm.msg_sender,
   msg_value |-> vm.msg_value, tx_origin |-> vm.tx_origin,
   ink_price |-> vm.ink_price, arg |-> arg, status |-> "ok",
   abort |-> "none", encode |-> encode, ret |-> ret, logs |-> logs]

\* the record of a call that aborted: the host discards its logs
Reverted(op, vm, arg, abort, encode) ==
  [tick |-> 1 - call.tick, op |-> op, msg_sender |-> vm.msg_sender,
   msg_value |-> vm.msg_value, tx_origin |-> vm.tx_origin,
   ink_price |-> vm.ink_price, arg |-> arg, status |-> "reverted",
   abort |-> abort, encode |-> encode, ret |-> Unit, logs |-> <<>>]

\* #[public] routes a call with attached value away from a method that is
\* not marked payable; no method of the contract is
deny_value(vm) == vm.msg_value # 0

U256(n) == [kind |-> "U256", val |-> <<n>>]
Address(a) == [kind |-> "Address", val |-> <<a>>]
U64(n) == [kind |-> "u64", val |-> <<n>>]

\* a deployment that records an owner at construction
Init_owner_at_deploy ==
  /\ owner \in Callers
  /\ balance \in [Accounts -> Balances]
  /\ call = [tick |-> 0, op |-> "deploy", msg_sender |-> ZeroAddress,
             msg_value |-> 0, tx_origin |-> ZeroAddress, ink_price |-> 0,
             arg |-> NoArg, status |-> "ok", abort |-> "none",
             encode |-> "none", ret |-> Unit, logs |-> <<>>]
  /\ inits = <<>>

Init ==
  /\ owner = ZeroAddress
  /\ balance \in [Accounts -> Balances]
  /\ call = [tick |-> 0, op |-> "deploy", msg_sender |-> ZeroAddress,
             msg_value |-> 0, tx_origin |-> ZeroAddress, ink_price |-> 0,
             arg |-> NoArg, status |-> "ok", abort |-> "none",
             encode |-> "none", ret |-> Unit, logs |-> <<>>]
  /\ inits = <<>>

\* initialize with a first-writer guard: it writes owner only while unset
initialize_first_writer(vm) ==
  /\ IF deny_value(vm)
       THEN /\ call' = Reverted("initialize", vm, NoArg, "not payable", "none")
            /\ UNCHANGED <<owner, inits>>
       ELSE LET sender == vm.msg_sender
            IN /\ owner' = IF owner = ZeroAddress THEN sender ELSE owner
               /\ call' = Returned("initialize", vm, NoArg, Unit, "none", <<>>)
               /\ inits' = Last2(Append(inits, vm.msg_sender))
  /\ UNCHANGED balance

initialize(vm) ==
  /\ IF deny_value(vm)
       THEN /\ call' = Reverted("initialize", vm, NoArg, "not payable", "none")
            /\ UNCHANGED <<owner, inits>>
       ELSE LET sender == vm.msg_sender
            IN /\ owner' = sender
               /\ call' = Returned("initialize", vm, NoArg, Unit, "none", <<>>)
               /\ inits' = Last2(Append(inits, vm.msg_sender))
  /\ UNCHANGED balance

get_msg_value(vm) ==
  /\ call' = IF deny_value(vm)
               THEN Reverted("get_msg_value", vm, NoArg, "not payable", "none")
               ELSE Returned("get_msg_value", vm, NoArg, U256(vm.msg_value),
                             "none", <<>>)
  /\ owner' = owner
  /\ UNCHANGED <<balance, inits>>

\* get_contract_balance storing the contract's address in owner
get_contract_balance_stores(vm) ==
  /\ call' = IF deny_value(vm)
               THEN Reverted("get_contract_balance", vm, NoArg, "not payable",
                             "none")
               ELSE LET this_contract == ContractAddress
                    IN Returned("get_contract_balance", vm, NoArg,
                                U256(balance[this_contract]), "none", <<>>)
  /\ owner' = IF deny_value(vm) THEN owner ELSE ContractAddress
  /\ UNCHANGED <<balance, inits>>

\* get_contract_balance answering from the result of the call before it
get_contract_balance_cached(vm) ==
  /\ call' = IF deny_value(vm)
               THEN Reverted("get_contract_balance", vm, NoArg, "not payable",
                             "none")
               ELSE LET this_contract == ContractAddress
                        cached == call.op = "get_contract_balance"
                                    /\ call.status = "ok"
                    IN Returned("get_contract_balance", vm, NoArg,
                                IF cached THEN call.ret
                                ELSE U256(balance[this_contract]),
                                "none", <<>>)
  /\ owner' = owner
  /\ UNCHANGED <<balance, inits>>

get_contract_balance(vm) ==
  /\ call' = IF deny_value(vm)
               THEN Reverted("get_contract_balance", vm, NoArg, "not payable",
                             "none")
               ELSE LET this_contract == ContractAddress
                    IN Returned("get_contract_balance", vm, NoArg,
                                U256(balance[this_contract]), "none", <<>>)
  /\ owner' = owner
  /\ UNCHANGED <<balance, inits>>

get_tx_origin(vm) ==
  /\ call' = IF deny_value(vm)
               THEN Reverted("get_tx_origin", vm, NoArg, "not payable", "none")
               ELSE Returned("get_tx_origin", vm, NoArg, Address(vm.tx_origin),
                             "none", <<>>)
  /\ owner' = owner
  /\ UNCHANGED <<balance, inits>>

convert_gas(vm, gas) ==
  /\ call' = IF deny_value(vm)
               THEN Reverted("convert_gas", vm, <<gas>>, "not payable", "none")
               ELSE Returned("convert_gas", vm, <<gas>>,
                             U64(gas_to_ink(gas, vm.ink_price)), "none", <<>>)
  /\ owner' = owner
  /\ UNCHANGED <<balance, inits>>

\* emit_my_event dropping the result of encode_topics_raw instead of
\* aborting on it
emit_my_event_ignores_err(vm) ==
  LET sender == vm.msg_sender
      value == vm.msg_value
      event == [sender |-> sender, value |-> value]
      topics == encode_topics_raw(event, <<>>)
      data == encode_data(event)
      sent == emit_log(data, Len(topics.out))
  IN /\ call' = IF deny_value(vm)
                  THEN Reverted("emit_my_event", vm, NoArg, "not payable",
                                "none")
                ELSE IF ~sent.ok
                  THEN Reverted("emit_my_event", vm, NoArg, "bad topic data",
                                IF topics.ok THEN "Ok" ELSE "Err")
                ELSE Returned("emit_my_event", vm, NoArg, Unit,
                              IF topics.ok THEN "Ok" ELSE "Err", <<sent.log>>)
     /\ owner' = owner
     /\ UNCHANGED <<balance, inits>>

emit_my_event(vm) ==
  LET sender == vm.msg_sender
      value == vm.msg_value
      event == [sender |-> sender, value |-> value]
      topics == encode_topics_raw(event, <<>>)
      data == encode_data(event)
      sent == emit_log(data, Len(topics.out))
  IN /\ call' = IF deny_value(vm)
                  THEN Reverted("emit_my_event", vm, NoArg, "not payable",
                                "none")
                ELSE IF ~topics.ok
                  THEN Reverted("emit_my_event", vm, NoArg,
                                "failed to encode topics", "Err")
                ELSE IF ~sent.ok
                  THEN Reverted("emit_my_event", vm, NoArg, "bad topic data",
                                "Ok")
                ELSE Returned("emit_my_event", vm, NoArg, Unit, "Ok",
                              <<sent.log>>)
     /\ owner' = owner
     /\ UNCHANGED <<balance, inits>>

hash_preimage(vm, preimage) ==
  /\ call' = IF deny_value(vm)
               THEN Reverted("hash_preimage", vm, preimage, "not payable",
                             "none")
               ELSE Returned("hash_preimage", vm, preimage, keccak(preimage),
                             "none", <<>>)
  /\ owner' = owner
  /\ UNCHANGED <<balance, inits>>

get_owner(vm) ==
  /\ call' = IF deny_value(vm)
               THEN Reverted("get_owner", vm, NoArg, "not payable", "none")
               ELSE Returned("get_owner", vm, NoArg, Address(get(owner)),
                             "none", <<>>)
  /\ owner' = owner
  /\ UNCHANGED <<balance, inits>>

\* the host moves native value between calls: the balance of an account
\* changes without any method of the contract running
host_balance(account, amount) ==
  /\ balance[account] # amount
  /\ balance' = [balance EXCEPT ![account] = amount]
  /\ UNCHANGED <<owner, call, inits>>

Next ==
  \/ \E vm \in ChainedCalls : initialize(vm)
  \/ \E vm \in DirectCalls : get_msg_value(vm)
  \/ \E vm \in DirectCalls : get_contract_balance(vm)
  \/ \E vm \in ChainedCalls : get_tx_origin(vm)
  \/ \E vm \in PricedCalls, gas \in GasValues : convert_gas(vm, gas)
  \/ \E vm \in DirectCalls : emit_my_event(vm)
  \/ \E vm \in DirectCalls, preimage \in Preimages : hash_preimage(vm, preimage)
  \/ \E vm \in DirectCalls : get_owner(vm)
  \/ \E account \in Accounts, amount \in Balances : host_balance(account, amount)

Spec == Init /\ [][Next]_vars

(* ------------------------------ properties ---------------------------- *)
\* a step that is a call of the contract: every call flips call.tick, and
\* the host's own steps leave call as it is
CallStep == call'.tick # call.tick
Completed(op) == call.op = op /\ call.status = "ok"

\* C1: a completed initialize by C leaves get_owner() equal to C, whatever
\* owner was before; after several initialize calls by different callers
\* get_owner() returns the caller of the most recent one.
C1_LastInitializerOwns ==
  /\ inits # <<>> => get(owner) = inits[Len(inits)]
  /\ Completed("initialize") => get(owner) = call.msg_sender
  /\ (Completed("get_owner") /\ inits # <<>>) =>
       call.ret = Address(inits[Len(inits)])

\* C1 witness: two different callers have initialized in turn, and a later
\* get_owner returned the second of them
C1_Witness ==
  /\ Len(inits) = 2
  /\ inits[1] # inits[2]
  /\ Completed("get_owner")
  /\ call.ret = Address(inits[2])

\* C2 as claimed: emit_my_event by caller C with attached value V hands the
\* host exactly one log record, topic 0 the selector, topic 1 the padded
\* form of C, data the 32-byte big-endian form of V.
C2_EmitsOneRecord ==
  call.op = "emit_my_event" =>
    call.logs = <<[topics |-> <<SIGNATURE_HASH, encode_topic(call.msg_sender)>>,
                   data |-> be_bytes(call.msg_value, WordBytes)]>>

\* no call hands the host a log record, and none is refused by emit_log:
\* emit_my_event never gets as far as the host's log facility
EmitLogUnreached == call.logs = <<>> /\ call.abort # "bad topic data"

\* C4 as claimed: topic encoding does not fail, and every call of
\* emit_my_event completes without aborting.
C4_EmitNeverAborts ==
  call.op = "emit_my_event" => call.encode = "Ok" /\ call.status = "ok"

\* C5: owner changes only in a completed call of initialize; every other
\* call, and every call that aborts, leaves it as it was.
C5_OwnerFrame ==
  [][owner' # owner =>
       CallStep /\ call'.op = "initialize" /\ call'.status = "ok"]_vars

\* C5 witness: a method other than initialize has completed while owner
\* holds a caller's address
C5_Witness ==
  /\ Completed("get_contract_balance")
  /\ owner \in Callers

\* C6 as claimed: get_msg_value always succeeds and returns the value
\* attached to the current call, 1000 when 1000 is attached.
C6_ReturnsAttachedValue ==
  call.op = "get_msg_value" =>
    call.status = "ok" /\ call.ret = U256(call.msg_value)

\* C7: when topic encoding fails in emit_my_event the call aborts: the host
\* receives no log record, owner keeps its value, the invoker sees a failure.
C7_EncodeFailureAborts ==
  [][(CallStep /\ call'.op = "emit_my_event" /\ call'.encode = "Err") =>
       /\ call'.status = "reverted"
       /\ call'.logs = <<>>
       /\ owner' = owner]_vars

\* C7 witness: emit_my_event has failed to encode its topics, with an owner
\* set before the call
C7_Witness ==
  /\ call.op = "emit_my_event"
  /\ call.encode = "Err"
  /\ call.abort = "failed to encode topics"
  /\ owner \in Callers

\* C8: convert_gas(0) is 0 at every ink price, and of two consecutive
\* convert_gas calls at one ink price the one with the larger input
\* returns at least as much, saturated products included.
C8_ConvertGasMonotone ==
  [][(CallStep /\ call'.op = "convert_gas" /\ call'.status = "ok") =>
       /\ call'.arg = <<0>> => call'.ret = U64(0)
       /\ (/\ Completed("convert_gas")
           /\ call.ink_price = call'.ink_price
           /\ call.arg[1] <= call'.arg[1]) =>
            call.ret.val[1] <= call'.ret.val[1]]_vars

\* C8 witness: convert_gas has completed on an input whose product with
\* the ink price exceeds the largest integer of the width
C8_Witness ==
  /\ Completed("convert_gas")
  /\ call.arg[1] * call.ink_price > U64_MAX
  /\ call.ret = U64(U64_MAX)

\* C9: a completed get_contract_balance returns the host's balance of the
\* contract's own account as it is during that call.
C9_BalanceIsLive ==
  [][(CallStep /\ call'.op = "get_contract_balance" /\ call'.status = "ok") =>
       call'.ret = U256(balance'[ContractAddress])]_vars

\* C9 witness: get_contract_balance has returned the contract's balance
\* while the balance of account 1 is another amount
C9_Witness ==
  /\ Completed("get_contract_balance")
  /\ call.ret = U256(balance[ContractAddress])
  /\ balance[ContractAddress] # balance[1]

\* C10: until a call of initialize has completed, owner is the zero address
\* and get_owner() returns it, whatever else has been called.
C10_ZeroUntilInitialized ==
  inits = <<>> =>
    /\ owner = ZeroAddress
    /\ Completed("get_owner") => call.ret = Address(ZeroAddress)

\* C10 witness: get_owner has completed before any initialize has
C10_Witness ==
  /\ inits = <<>>
  /\ Completed("get_owner")
  /\ call.ret = Address(ZeroAddress)

====
